---------------------------- MODULE Spec2Model ----------------------------
(***************************************************************************)
(* Sorting networks of komrad36/SortingNetworks: the scalar networks sort2 *)
(* and sort6, the SSE networks simdsort4 (4 x int32) and simdsort6         *)
(* (6 x int8) of sorts.cpp, and the correctness and timing harness of      *)
(* main.cpp.                                                               *)
(*                                                                         *)
(* A 32-bit lane is held as its signed value in INT_MIN..INT_MAX (the      *)
(* two's-complement representative); a byte lane is held as its bit        *)
(* pattern 0..255.  Buffers and registers are functions over 0..n-1.       *)
(***************************************************************************)
EXTENDS Integers, Sequences, FiniteSets, TLC

VARIABLES
    prog,      \* the routine the caller runs: simdsort4, simdsort6, sort6, main
    pc,        \* position inside that routine
    input,     \* the buffer as the caller handed it over
    v,         \* the buffer in memory
    a,         \* register a (sort6: unused)
    b,         \* register b
    acc,       \* the memory accesses made so far: <<kind, byte offset, width>>
    k,         \* sort6: compare-and-swaps done; simdsort6: passes done
    trace,     \* sort6: the index pairs swapped so far, in order
    f,         \* main: the network under test
    order,     \* main: the order in which the generator delivers
    ps,        \* main: how many permutations the generator has delivered
    p,         \* main: the buffer of the correctness loop
    all_good,  \* main: the failure flag
    tested,    \* main: the permutations the network has been invoked on
    out,       \* main: the lines printed
    x,         \* main: the buffer of the timing loop
    i          \* main: the iterations of the timing loop that are done

netVars == <<input, v, a, b, acc, k, trace>>
mainVars == <<f, order, ps, p, all_good, tested, out, x, i>>
vars == <<prog, pc, netVars, mainVars>>

------------------------------------------------------------------------------
(* Bounds of the model *)

\* the values 1..NumDup fill the buffers whose elements repeat
NumDup == 3

\* iterations of the timing loop that are run (the code runs 1000000000)
MaxRuns == 3

------------------------------------------------------------------------------
(* Integer widths *)

INT_MAX == 2147483647
INT_MIN == -INT_MAX - 1

\* the signed value of a byte pattern
S8(u) == IF u >= 128 THEN u - 256 ELSE u

\* the byte pattern of a signed value
U8(s) == s % 256

\* u + w0 modulo 2^32, on signed representatives
Add32(u, w0) ==
    IF u >= 0 /\ w0 > INT_MAX - u THEN (u + INT_MIN) + (w0 + INT_MIN)
    ELSE IF u < 0 /\ w0 < INT_MIN - u THEN (u - INT_MIN) + (w0 - INT_MIN)
    ELSE u + w0

RECURSIVE Shl32(_, _)
\* u << n modulo 2^32
Shl32(u, n) == IF n = 0 THEN u ELSE Shl32(Add32(u, u), n - 1)

RECURSIVE BitAnd(_, _, _)
\* the bitwise and of the low n bits of u and w0
BitAnd(u, w0, n) ==
    IF n = 0 THEN 0
    ELSE (u % 2) * (w0 % 2) + 2 * BitAnd(u \div 2, w0 \div 2, n - 1)

\* byte n of the 32-bit value u, little-endian
ByteOf(u, n) == (u \div (256 ^ n)) % 256

\* the 32-bit value of four bytes, little-endian
LE32(b0, b1, b2, b3) == b0 + 256 * b1 + 65536 * b2 + 16777216 * S8(b3)

Lanes4 == 0 .. 3
Lanes16 == 0 .. 15
Data6 == 0 .. 5

\* a C array initialised from a list
Buf(s) == [j \in 0 .. Len(s) - 1 |-> s[j + 1]]

Range(g) == {g[j] : j \in DOMAIN g}

\* how many elements of g equal u
CountOf(g, u) == Cardinality({j \in DOMAIN g : g[j] = u})

\* g and h hold the same multiset of values
SameMultiset(g, h) ==
    /\ Cardinality(DOMAIN g) = Cardinality(DOMAIN h)
    /\ \A u \in Range(g) \cup Range(h) : CountOf(g, u) = CountOf(h, u)

\* g over 0..n-1 is in non-descending order
Ascending(g, n) == \A j \in 0 .. n - 2 : g[j] <= g[j + 1]

------------------------------------------------------------------------------
(* SSE intrinsics on four 32-bit lanes *)

Setr_epi32(e0, e1, e2, e3) == Buf(<<e0, e1, e2, e3>>)

\* lane j takes the lane named by bits 2i, 2i+1 of the immediate
Shuffle_epi32(u, imm) == [j \in Lanes4 |-> u[(imm \div (4 ^ j)) % 4]]

\* u - w0 modulo 2^32
Sub32(u, w0) == IF w0 = INT_MIN THEN Add32(u, INT_MIN) ELSE Add32(u, -w0)

\* a compare that takes the sign of the wrapped difference
CmpgtBySubtraction(u, w0) == [j \in Lanes4 |-> IF Sub32(u[j], w0[j]) > 0 THEN -1 ELSE 0]

\* signed compare, all ones (-1) where u > w0
Cmpgt_epi32(u, w0) == [j \in Lanes4 |-> IF u[j] > w0[j] THEN -1 ELSE 0]

Add_epi32(u, w0) == [j \in Lanes4 |-> Add32(u[j], w0[j])]

Slli_epi32(u, n) == [j \in Lanes4 |-> Shl32(u[j], n)]

\* lane j takes the lane named by the low two bits of control lane j
Permutevar_ps(u, c) == [j \in Lanes4 |-> u[c[j] % 4]]

------------------------------------------------------------------------------
(* simdsort4 *)

pass1_add4 == Setr_epi32(1, 1, 3, 3)
pass2_add4 == Setr_epi32(2, 3, 2, 3)
\* pass 3 constants with lane 1 left at its own index
pass3_add4Typo == Setr_epi32(0, 1, 2, 3)

pass3_add4 == Setr_epi32(0, 2, 2, 3)

\* the index vector of pass 1
Index4Pass1(u) ==
    Add_epi32(Cmpgt_epi32(Shuffle_epi32(u, 177), u), pass1_add4)

\* pass 2 without the shift of the compare mask
Index4Pass2NoShift(u) ==
    Add_epi32(Cmpgt_epi32(Shuffle_epi32(u, 78), u), pass2_add4)

\* the index vector of pass 2
Index4Pass2(u) ==
    Add_epi32(Slli_epi32(Cmpgt_epi32(Shuffle_epi32(u, 78), u), 1), pass2_add4)

\* the index vector of pass 3
Index4Pass3(u) ==
    Add_epi32(Cmpgt_epi32(Shuffle_epi32(u, 216), u), pass3_add4)

\* the whole routine on a buffer of four ints
simdsort4(buf) ==
    LET a1 == Permutevar_ps(buf, Index4Pass1(buf))
        a2 == Permutevar_ps(a1, Index4Pass2(a1))
    IN  Permutevar_ps(a2, Index4Pass3(a2))

Simd4Load ==
    /\ prog = "simdsort4" /\ pc = "start"
    /\ a' = v
    /\ acc' = acc \cup {<<"load", 0, 16>>}
    /\ pc' = "pass1"
    /\ UNCHANGED <<prog, input, v, b, k, trace, mainVars>>

Simd4Index1 ==
    /\ prog = "simdsort4" /\ pc = "pass1"
    /\ b' = Index4Pass1(a)
    /\ pc' = "permute1"
    /\ UNCHANGED <<prog, input, v, a, acc, k, trace, mainVars>>

Simd4Permute1 ==
    /\ prog = "simdsort4" /\ pc = "permute1"
    /\ a' = Permutevar_ps(a, b)
    /\ pc' = "pass2"
    /\ UNCHANGED <<prog, input, v, b, acc, k, trace, mainVars>>

Simd4Index2 ==
    /\ prog = "simdsort4" /\ pc = "pass2"
    /\ b' = Index4Pass2(a)
    /\ pc' = "permute2"
    /\ UNCHANGED <<prog, input, v, a, acc, k, trace, mainVars>>

Simd4Permute2 ==
    /\ prog = "simdsort4" /\ pc = "permute2"
    /\ a' = Permutevar_ps(a, b)
    /\ pc' = "pass3"
    /\ UNCHANGED <<prog, input, v, b, acc, k, trace, mainVars>>

Simd4Index3 ==
    /\ prog = "simdsort4" /\ pc = "pass3"
    /\ b' = Index4Pass3(a)
    /\ pc' = "permute3"
    /\ UNCHANGED <<prog, input, v, a, acc, k, trace, mainVars>>

\* the last permute goes to ret, which is stored
Simd4Store ==
    /\ prog = "simdsort4" /\ pc = "permute3"
    /\ v' = Permutevar_ps(a, b)
    /\ acc' = acc \cup {<<"store", 0, 16>>}
    /\ pc' = "done"
    /\ UNCHANGED <<prog, input, a, b, k, trace, mainVars>>

------------------------------------------------------------------------------
(* SSE intrinsics on sixteen byte lanes *)

Setr_epi8(s) == [j \in Lanes16 |-> U8(s[j + 1])]

\* lane j takes the lane named by the low four bits of control lane j, or
\* zero when the control lane has its top bit set
Shuffle_epi8(u, c) == [j \in Lanes16 |-> IF c[j] >= 128 THEN 0 ELSE u[c[j] % 16]]

\* a compare of the bit patterns, as for unsigned chars
CmpgtUnsigned_epi8(u, w0) == [j \in Lanes16 |-> IF u[j] > w0[j] THEN 255 ELSE 0]

\* signed compare, all ones (255) where u > w0
Cmpgt_epi8(u, w0) == [j \in Lanes16 |-> IF S8(u[j]) > S8(w0[j]) THEN 255 ELSE 0]

And_si128(u, w0) == [j \in Lanes16 |-> BitAnd(u[j], w0[j], 8)]

Add_epi8(u, w0) == [j \in Lanes16 |-> (u[j] + w0[j]) % 256]

\* the int in the low four lanes, the rest zero
Cvtsi32_si128(u) == [j \in Lanes16 |-> IF j < 4 THEN ByteOf(u, j) ELSE 0]

\* 16-bit lane imm takes the low 16 bits of w
Insert_epi16(u, w, imm) ==
    [j \in Lanes16 |->
        IF j = 2 * imm THEN ByteOf(w, 0)
        ELSE IF j = 2 * imm + 1 THEN ByteOf(w, 1)
        ELSE u[j]]

\* the low four lanes as an int
Cvtsi128_si32(u) == LE32(u[0], u[1], u[2], u[3])

\* 16-bit lane imm, zero-extended
Extract_epi16(u, imm) == u[2 * imm] + 256 * u[2 * imm + 1]

------------------------------------------------------------------------------
(* simdsort6 *)

pass1_shf == Setr_epi8(<<1, 0, 3, 2, 5, 4, 6, 7, 8, 9, 10, 11, 12, 13, 14, 15>>)
pass1_add == Setr_epi8(<<1, 1, 3, 3, 5, 5, 6, 7, 8, 9, 10, 11, 12, 13, 14, 15>>)
pass2_shf == Setr_epi8(<<2, 4, 0, 5, 1, 3, 6, 7, 8, 9, 10, 11, 12, 13, 14, 15>>)
\* pass 2 mask with lane 1 given the mask of lane 0
pass2_andTypo == Setr_epi8(<<-2, -2, -2, -2, -3, -2, 0, 0, 0, 0, 0, 0, 0, 0, 0, 0>>)

pass2_and == Setr_epi8(<<-2, -3, -2, -2, -3, -2, 0, 0, 0, 0, 0, 0, 0, 0, 0, 0>>)
pass2_add == Setr_epi8(<<2, 4, 2, 5, 4, 5, 6, 7, 8, 9, 10, 11, 12, 13, 14, 15>>)
pass4_shf == Setr_epi8(<<0, 2, 1, 4, 3, 5, 6, 7, 8, 9, 10, 11, 12, 13, 14, 15>>)
pass4_add == Setr_epi8(<<0, 2, 2, 4, 4, 5, 6, 7, 8, 9, 10, 11, 12, 13, 14, 15>>)
pass5_shf == Setr_epi8(<<0, 1, 3, 2, 4, 5, 6, 7, 8, 9, 10, 11, 12, 13, 14, 15>>)
pass5_add == Setr_epi8(<<0, 1, 3, 3, 4, 5, 6, 7, 8, 9, 10, 11, 12, 13, 14, 15>>)

\* the index vector of a pass that shuffles, compares and adds
Index6(u, shf, add) == Add_epi8(Cmpgt_epi8(Shuffle_epi8(u, shf), u), add)

\* pass 2 without the mask
Index6Pass2NoMask(u) ==
    Add_epi8(Cmpgt_epi8(Shuffle_epi8(u, pass2_shf), u), pass2_add)

\* the index vector of pass 2, which masks the compare before adding
Index6Pass2(u) ==
    Add_epi8(And_si128(Cmpgt_epi8(Shuffle_epi8(u, pass2_shf), u), pass2_and), pass2_add)

\* the widths of the read at v + 4: an int as written, or the 16 bits
\* that are used when the build narrows the read
ReadWidths == {4, 2}

\* what the bytes past the buffer may hold
Beyond == {0, 255}

\* the register after the two loads
Load6(mem, g6, g7) ==
    Insert_epi16(Cvtsi32_si128(LE32(mem[0], mem[1], mem[2], mem[3])),
                 LE32(mem[4], mem[5], g6, g7), 2)

\* the buffer after the two stores
Store6(mem, u) ==
    [j \in DOMAIN mem |->
        IF j < 4 THEN ByteOf(Cvtsi128_si32(u), j)
        ELSE IF j < 6 THEN ByteOf(Extract_epi16(u, 2), j - 4)
        ELSE mem[j]]

Simd6Load ==
    /\ prog = "simdsort6" /\ pc = "start"
    /\ \E w \in ReadWidths, g6 \in Beyond, g7 \in Beyond :
          /\ a' = Load6(v, g6, g7)
          /\ acc' = acc \cup {<<"load", 0, 4>>, <<"load", 4, w>>}
    /\ pc' = "pass1"
    /\ UNCHANGED <<prog, input, v, b, k, trace, mainVars>>

\* passes 1 and 3 run the same code on the same constants
Simd6Pass1 ==
    /\ prog = "simdsort6" /\ pc \in {"pass1", "pass3"}
    /\ b' = Index6(a, pass1_shf, pass1_add)
    /\ a' = Shuffle_epi8(a, b')
    /\ pc' = IF pc = "pass1" THEN "pass2" ELSE "pass4"
    /\ k' = k + 1
    /\ UNCHANGED <<prog, input, v, acc, trace, mainVars>>

Simd6Pass2 ==
    /\ prog = "simdsort6" /\ pc = "pass2"
    /\ b' = Index6Pass2(a)
    /\ a' = Shuffle_epi8(a, b')
    /\ pc' = "pass3"
    /\ k' = k + 1
    /\ UNCHANGED <<prog, input, v, acc, trace, mainVars>>

Simd6Pass4 ==
    /\ prog = "simdsort6" /\ pc = "pass4"
    /\ b' = Index6(a, pass4_shf, pass4_add)
    /\ a' = Shuffle_epi8(a, b')
    /\ pc' = "pass5"
    /\ k' = k + 1
    /\ UNCHANGED <<prog, input, v, acc, trace, mainVars>>

Simd6Pass5 ==
    /\ prog = "simdsort6" /\ pc = "pass5"
    /\ b' = Index6(a, pass5_shf, pass5_add)
    /\ a' = Shuffle_epi8(a, b')
    /\ pc' = "store"
    /\ k' = k + 1
    /\ UNCHANGED <<prog, input, v, acc, trace, mainVars>>

Simd6Store ==
    /\ prog = "simdsort6" /\ pc = "store"
    /\ v' = Store6(v, a)
    /\ acc' = acc \cup {<<"store", 0, 4>>, <<"store", 4, 2>>}
    /\ pc' = "done"
    /\ UNCHANGED <<prog, input, a, b, k, trace, mainVars>>

------------------------------------------------------------------------------
(* The scalar networks *)

kmin(u, w0) == IF u < w0 THEN u ELSE w0
kmax(u, w0) == IF u < w0 THEN w0 ELSE u

\* a compare-and-swap that writes the larger value first
kswapMaxFirst(buf, u, w0) ==
    [buf EXCEPT ![u] = kmax(buf[u], buf[w0]), ![w0] = kmin(buf[u], buf[w0])]

\* one compare-and-swap of sort6
kswap(buf, u, w0) ==
    [buf EXCEPT ![u] = kmin(buf[u], buf[w0]), ![w0] = kmax(buf[u], buf[w0])]

\* the compare-and-swaps of sort6, in program order
KswapSeq ==
    << <<1, 2>>, <<0, 2>>, <<0, 1>>, <<4, 5>>, <<3, 5>>, <<3, 4>>,
       <<0, 3>>, <<1, 4>>, <<2, 5>>, <<2, 4>>, <<1, 3>>, <<2, 3>> >>

RECURSIVE KswapUpTo(_, _)
\* the buffer after the first n compare-and-swaps of sort6
KswapUpTo(buf, n) ==
    IF n = 0 THEN buf
    ELSE kswap(KswapUpTo(buf, n - 1), KswapSeq[n][1], KswapSeq[n][2])

\* the whole routine on a buffer of six ints
sort6(buf) == KswapUpTo(buf, Len(KswapSeq))

\* the whole routine; it reads and writes v[0] and v[1] only
sort2(buf) ==
    [buf EXCEPT ![0] = IF buf[1] > buf[0] THEN buf[0] ELSE buf[1],
                ![1] = IF buf[1] > buf[0] THEN buf[1] ELSE buf[0]]

Sort6Kswap ==
    /\ prog = "sort6" /\ pc = "start"
    /\ k < Len(KswapSeq)
    /\ v' = kswap(v, KswapSeq[k + 1][1], KswapSeq[k + 1][2])
    /\ trace' = Append(trace, KswapSeq[k + 1])
    /\ k' = k + 1
    /\ UNCHANGED <<prog, pc, input, a, b, acc, mainVars>>

Sort6Return ==
    /\ prog = "sort6" /\ pc = "start"
    /\ k = Len(KswapSeq)
    /\ pc' = "done"
    /\ UNCHANGED <<prog, input, v, a, b, acc, k, trace, mainVars>>

------------------------------------------------------------------------------
(* main: the correctness harness and the timing harness *)

\* the reference, which std::sort leaves as it is
ref == Buf(<<1, 2, 3, 4>>)

\* the routines f may be bound to; main.cpp binds the assembly rendering
\* of simdsort4, and any void(int*) routine fits, sort2 among them
Networks == {"simdsort4", "sort2"}

\* f(buf)
Call(net, buf) == IF net = "simdsort4" THEN simdsort4(buf) ELSE sort2(buf)

\* Permutations<int>: every order of the reference, each delivered once
PermsOf(r) ==
    {[j \in Lanes4 |-> r[s[j]]] : s \in {t \in [Lanes4 -> Lanes4] : Range(t) = Lanes4}}

\* g is delivered before h
Before(ord, g, h) ==
    LET key(q) == 1000 * q[0] + 100 * q[1] + 10 * q[2] + q[3]
    IN  IF ord = "ascending" THEN key(g) < key(h) ELSE key(g) > key(h)

\* the permutation ps.next delivers after n others
NextPerm(ord, r, n) ==
    CHOOSE g \in PermsOf(r) :
        Cardinality({h \in PermsOf(r) : Before(ord, h, g)}) = n

\* ps.next(p) has another permutation to deliver
HasNext(r, n) == n < Cardinality(PermsOf(r))

\* a loop that is left at the first mismatch
LoopStopsAtMismatch(more, flag) == more /\ flag

\* the while condition
LoopContinues(more, flag) == more

\* the elements of the sorted buffer that differ from the reference
Mismatches(buf, r) == {j \in DOMAIN buf : buf[j] # r[j]}

\* all_good after the for loop over one permutation
FlagAfter(flag, bad) == IF bad # {} THEN FALSE ELSE flag

\* one "NOPE!" for each mismatch
RECURSIVE Nopes(_)
Nopes(n) == IF n = 0 THEN <<>> ELSE Append(Nopes(n - 1), "NOPE!")

runs == 1000000000

\* the iterations of the timing loop the model runs
RunsModelled == kmin(runs, MaxRuns)

\* a loop body that leaves the buffer as the last call left it
ReinitSkipped(buf) == buf

\* x[0] = 1; x[1] = 2; x[2] = 3; x[3] = 4;
Reinit(buf) == [buf EXCEPT ![0] = 1, ![1] = 2, ![2] = 3, ![3] = 4]

\* one turn of the while loop: the next permutation, the call, the comparison
MainCheck ==
    /\ prog = "main" /\ pc = "check"
    /\ LoopContinues(HasNext(ref, ps), all_good)
    /\ LET q == NextPerm(order, ref, ps)
           r == Call(f, q)
           bad == Mismatches(r, ref)
       IN  /\ p' = r
           /\ tested' = tested \cup {q}
           /\ out' = out \o Nopes(Cardinality(bad))
           /\ all_good' = FlagAfter(all_good, bad)
    /\ ps' = ps + 1
    /\ UNCHANGED <<prog, pc, netVars, f, order, x, i>>

\* the loop is left and the verdict printed
MainReport ==
    /\ prog = "main" /\ pc = "check"
    /\ ~LoopContinues(HasNext(ref, ps), all_good)
    /\ out' = IF all_good THEN Append(out, "All good!") ELSE out
    /\ pc' = "timing"
    /\ UNCHANGED <<prog, netVars, f, order, ps, p, all_good, tested, x, i>>

\* the head of the timing loop's body
TimeInit ==
    /\ prog = "main" /\ pc = "timing"
    /\ i < RunsModelled
    /\ x' = Reinit(x)
    /\ pc' = "call"
    /\ UNCHANGED <<prog, netVars, f, order, ps, p, all_good, tested, out, i>>

\* f(x) and the loop's increment
TimeCall ==
    /\ prog = "main" /\ pc = "call"
    /\ x' = Call(f, x)
    /\ i' = i + 1
    /\ pc' = "timing"
    /\ UNCHANGED <<prog, netVars, f, order, ps, p, all_good, tested, out>>

TimeReport ==
    /\ prog = "main" /\ pc = "timing"
    /\ i = RunsModelled
    /\ out' = Append(out, "ns per sort.")
    /\ pc' = "done"
    /\ UNCHANGED <<prog, netVars, f, order, ps, p, all_good, tested, x, i>>

------------------------------------------------------------------------------
(* Callers' buffers *)

\* four ints: every order of every choice, repeats and both extrema included
Values4 == {INT_MIN, 1, 2, 3, 4, INT_MAX}
Inputs4 == [Lanes4 -> Values4]

\* six values: every order of six distinct ones, and every buffer over
\* 1..NumDup and over the two extrema and zero
Distinct8 == {-128, -1, 0, 1, 2, 127}
Distinct32 == {INT_MIN, -1, 0, 1, 2, INT_MAX}
Orders6(S) == {g \in [Data6 -> S] : Cardinality(Range(g)) = 6}
Inputs6 == Orders6(Distinct8) \cup [Data6 -> 1 .. NumDup] \cup [Data6 -> {-128, 0, 127}]
Inputs6Int == Inputs6 \cup Orders6(Distinct32)

None == <<>>

\* main is not running
MainIdle ==
    /\ f = "none" /\ order = "none" /\ ps = 0 /\ p = None /\ all_good = TRUE
    /\ tested = {} /\ out = <<>> /\ x = None /\ i = 0

Init4 ==
    /\ prog = "simdsort4" /\ pc = "start"
    /\ input \in Inputs4
    /\ v = input
    /\ a = None /\ b = None /\ acc = {} /\ k = 0 /\ trace = <<>>
    /\ MainIdle

Init6 ==
    /\ prog = "simdsort6" /\ pc = "start"
    /\ input \in Inputs6
    /\ v = [j \in Data6 |-> U8(input[j])]
    /\ a = None /\ b = None /\ acc = {} /\ k = 0 /\ trace = <<>>
    /\ MainIdle

InitScalar6 ==
    /\ prog = "sort6" /\ pc = "start"
    /\ input \in Inputs6Int
    /\ v = input
    /\ a = None /\ b = None /\ acc = {} /\ k = 0 /\ trace = <<>>
    /\ MainIdle

\* what the stack may hold where x is declared
Garbage4 == {Buf(<<0, 0, 0, 0>>), Buf(<<4, 3, 2, 1>>), Buf(<<1, 2, 3, 4>>)}

InitMain ==
    /\ prog = "main" /\ pc = "check"
    /\ input = None /\ v = None /\ a = None /\ b = None
    /\ acc = {} /\ k = 0 /\ trace = <<>>
    /\ f \in Networks
    /\ order \in {"ascending", "descending"}
    /\ ps = 0 /\ p = None /\ all_good = TRUE /\ tested = {} /\ out = <<>>
    /\ x \in Garbage4
    /\ i = 0

Init == Init4 \/ Init6 \/ InitScalar6 \/ InitMain

Next ==
    \/ Simd4Load
    \/ Simd4Index1
    \/ Simd4Permute1
    \/ Simd4Index2
    \/ Simd4Permute2
    \/ Simd4Index3
    \/ Simd4Store
    \/ Simd6Load
    \/ Simd6Pass1
    \/ Simd6Pass2
    \/ Simd6Pass4
    \/ Simd6Pass5
    \/ Simd6Store
    \/ Sort6Kswap
    \/ Sort6Return
    \/ MainCheck
    \/ MainReport
    \/ TimeInit
    \/ TimeCall
    \/ TimeReport

Spec == Init /\ [][Next]_vars

------------------------------------------------------------------------------
(* Properties *)

\* the byte buffer of simdsort6 as signed values
Signed6(mem) == [j \in Data6 |-> S8(mem[j])]

AfterIndex4 == {"permute1", "pass2", "permute2", "pass3", "permute3", "done"}

\* C1: simdsort4 leaves in the buffer the values it was given, in
\* non-descending order, for every buffer of four ints; each of the 24
\* orders of 1, 2, 3, 4 comes out as 1, 2, 3, 4.
C1_Simdsort4Sorts ==
    (prog = "simdsort4" /\ pc = "done") =>
        /\ Ascending(v, 4)
        /\ SameMultiset(v, input)
        /\ (input \in PermsOf(ref) => v = ref)

C1_Witness ==
    /\ prog = "simdsort4" /\ pc = "done"
    /\ input = Buf(<<4, 3, 2, 1>>)
    /\ v = Buf(<<1, 2, 3, 4>>)

\* C2: simdsort6 leaves in bytes 0..5 the values it was given, in
\* non-descending signed order, for every buffer of six chars, repeated
\* values included.
C2_Simdsort6Sorts ==
    (prog = "simdsort6" /\ pc = "done") =>
        /\ Ascending(Signed6(v), 6)
        /\ SameMultiset(Signed6(v), input)

C2_Witness ==
    /\ prog = "simdsort6" /\ pc = "done" /\ k = 5
    /\ input = Buf(<<2, 2, 1, 3, 3, 1>>)
    /\ Signed6(v) = Buf(<<1, 1, 2, 2, 3, 3>>)

\* the order of the compare-and-swaps that C3 states
C3_Order ==
    << <<1, 2>>, <<0, 2>>, <<0, 1>>, <<4, 5>>, <<3, 5>>, <<3, 4>>,
       <<0, 3>>, <<1, 4>>, <<2, 5>>, <<2, 4>>, <<1, 3>>, <<2, 3>> >>

C3_Inv ==
    prog = "sort6" =>
        /\ k <= 12
        /\ trace = SubSeq(C3_Order, 1, k)
        /\ SameMultiset(v, input)
        /\ pc = "done" => (k = 12 /\ Ascending(v, 6))

C3_Step ==
    (prog = "sort6" /\ v' # v) =>
        LET lo == C3_Order[k'][1]
            hi == C3_Order[k'][2]
        IN  /\ k' = k + 1
            /\ lo < hi
            /\ v'[lo] <= v'[hi]
            /\ {v'[lo], v'[hi]} = {v[lo], v[hi]}
            /\ \A j \in Data6 \ {lo, hi} : v'[j] = v[j]

\* C3: sort6 does exactly 12 compare-and-swaps, in the order (1,2), (0,2),
\* (0,1), (4,5), (3,5), (3,4), (0,3), (1,4), (2,5), (2,4), (1,3), (2,3);
\* each leaves the smaller value at the lower index and the larger at the
\* higher and touches nothing else; after the 12th the buffer is in
\* non-descending order and holds the values it was given.
C3_Sort6Network == []C3_Inv /\ [][C3_Step]_vars

C3_Witness ==
    /\ prog = "sort6" /\ pc = "done" /\ k = 12
    /\ input = Buf(<<INT_MAX, 2, 1, 0, -1, INT_MIN>>)
    /\ v = Buf(<<INT_MIN, -1, 0, 1, 2, INT_MAX>>)

\* C4: no access of simdsort4 leaves bytes 0..15 of its buffer, none of
\* simdsort6 leaves bytes 0..5, and simdsort6 loads and stores with one
\* 4-byte access at offset 0 and one 2-byte access at offset 4.
C4_AccessesWithinExtent ==
    /\ prog = "simdsort4" =>
          \A m \in acc : m[2] >= 0 /\ m[2] + m[3] <= 16
    /\ prog = "simdsort6" =>
          /\ \A m \in acc : m[2] >= 0 /\ m[2] + m[3] <= 6
          /\ pc # "start" =>
                {m \in acc : m[1] = "load"} = {<<"load", 0, 4>>, <<"load", 4, 2>>}
          /\ pc = "done" =>
                {m \in acc : m[1] = "store"} = {<<"store", 0, 4>>, <<"store", 4, 2>>}

\* C5: with both extrema of the element range in the buffer the networks
\* still sort, and every index synthesized for a data lane, taken as the
\* whole lane value modulo the lane width, names a data lane: 0..3 in
\* simdsort4, 0..5 in simdsort6.
C5_ExtremaAndIndices ==
    /\ prog = "simdsort4" =>
          /\ pc \in AfterIndex4 => \A j \in Lanes4 : b[j] \in Lanes4
          /\ (pc = "done" /\ {INT_MIN, INT_MAX} \subseteq Range(input)) =>
                (Ascending(v, 4) /\ SameMultiset(v, input))
    /\ prog = "simdsort6" =>
          /\ k >= 1 => \A j \in Data6 : b[j] \in Data6
          /\ (pc = "done" /\ {-128, 127} \subseteq Range(input)) =>
                (Ascending(Signed6(v), 6) /\ SameMultiset(Signed6(v), input))

C5_Witness ==
    /\ prog = "simdsort4" /\ pc = "done"
    /\ input = Buf(<<INT_MAX, 1, INT_MIN, INT_MAX>>)
    /\ v = Buf(<<INT_MIN, 1, INT_MAX, INT_MAX>>)
    /\ b = Buf(<<0, 2, 1, 3>>)

\* C6: on six values that fit a signed char, simdsort6 leaves the buffer
\* that sort6 leaves, element by element.
C6_VectorAgreesWithScalar ==
    (prog = "simdsort6" /\ pc = "done") => Signed6(v) = sort6(input)

C6_Witness ==
    /\ prog = "simdsort6" /\ pc = "done"
    /\ input = Buf(<<127, 2, 1, 0, -1, -128>>)
    /\ Signed6(v) = sort6(input)
    /\ Signed6(v) # input

AllGoodPrinted == "All good!" \in Range(out)

C7_Inv ==
    prog = "main" =>
        /\ pc = "check" => (~AllGoodPrinted /\ Cardinality(tested) = ps)
        /\ pc # "check" =>
              /\ tested = PermsOf(ref)
              /\ AllGoodPrinted <=> \A q \in PermsOf(ref) : Call(f, q) = ref

\* C7: whatever the network under test does, the harness invokes it on
\* every permutation the generator delivers, never sets the failure flag
\* back once a mismatch cleared all_good, and prints "All good!", after the
\* last permutation, exactly when no element of any output differed from
\* the reference.
C7_HarnessRunsToTheEnd == []C7_Inv /\ [][~all_good => ~all_good']_vars

C7_Witness ==
    /\ prog = "main" /\ pc = "timing" /\ f = "sort2"
    /\ Cardinality(tested) = 24
    /\ p = ref
    /\ ~all_good
    /\ ~AllGoodPrinted

Partner4 ==
    IF pc = "permute1" THEN Buf(<<1, 0, 3, 2>>)
    ELSE IF pc = "permute2" THEN Buf(<<2, 3, 0, 1>>)
    ELSE Buf(<<0, 2, 1, 3>>)

Permuting4 == prog = "simdsort4" /\ pc \in {"permute1", "permute2", "permute3"}

\* C9 as stated: a lane that ties with its partner selects itself, and
\* the index vector of every pass is a permutation of 0..3.
C9_IndexIsPermutation ==
    Permuting4 =>
        /\ \A j \in Lanes4 : a[j] = a[Partner4[j]] => b[j] = j
        /\ Range(b) = Lanes4

\* C9: in every pass each lane selects itself or its partner; two
\* partners that tie both select the higher of their two lanes, so the
\* index vector then names that lane twice; when no two partners tie the
\* index vector is a permutation of 0..3; and for every input, ties
\* included, the lanes hold the values of the input after every pass.
C9_TiesKeepTheMultiset ==
    prog = "simdsort4" =>
        /\ pc \notin {"start", "done"} => SameMultiset(a, input)
        /\ pc = "done" => SameMultiset(v, input)
        /\ Permuting4 =>
              /\ \A j \in Lanes4 : b[j] \in {j, Partner4[j]}
              /\ \A j \in Lanes4 :
                    a[j] = a[Partner4[j]] => b[j] = kmax(j, Partner4[j])
              /\ (\A j \in Lanes4 : Partner4[j] # j => a[j] # a[Partner4[j]])
                    => Range(b) = Lanes4

C9_Witness ==
    /\ prog = "simdsort4" /\ pc = "permute1"
    /\ a = Buf(<<1, 1, 3, 2>>)
    /\ b = Buf(<<1, 1, 3, 2>>)

\* the data lanes of register a as signed values
SignedLanes == [j \in Data6 |-> S8(a[j])]

\* the number of compare-and-swaps of sort6 up to the end of each group
C10_ScalarGroupEnd == <<3, 6, 9, 11, 12>>

\* the pairs each pass of simdsort6 compares and swaps
C10_VectorGroups ==
    << {<<0, 1>>, <<2, 3>>, <<4, 5>>},
       {<<0, 2>>, <<1, 4>>, <<3, 5>>},
       {<<0, 1>>, <<2, 3>>, <<4, 5>>},
       {<<1, 2>>, <<3, 4>>},
       {<<2, 3>>} >>

\* the compare-and-swaps of a group of disjoint pairs, at once
C10_Swapped(buf, group) ==
    [j \in DOMAIN buf |->
        IF \E pr \in group : pr[1] = j
        THEN LET pr == CHOOSE q \in group : q[1] = j
             IN  IF buf[pr[2]] < buf[j] THEN buf[pr[2]] ELSE buf[j]
        ELSE IF \E pr \in group : pr[2] = j
        THEN LET pr == CHOOSE q \in group : q[2] = j
             IN  IF buf[pr[1]] > buf[j] THEN buf[pr[1]] ELSE buf[j]
        ELSE buf[j]]

RECURSIVE C10_AfterGroups(_, _)
C10_AfterGroups(buf, n) ==
    IF n = 0 THEN buf
    ELSE C10_Swapped(C10_AfterGroups(buf, n - 1), C10_VectorGroups[n])

\* C10 as stated: after pass n of simdsort6 the data lanes are the buffer
\* of sort6 after its n-th group of compare-and-swaps.
C10_PassesMirrorScalarGroups ==
    (prog = "simdsort6" /\ k \in 1 .. 5) =>
        SignedLanes = KswapUpTo(input, C10_ScalarGroupEnd[k])

\* C10: the five passes of simdsort6 are the groups {(0,1),(2,3),(4,5)},
\* {(0,2),(1,4),(3,5)}, {(0,1),(2,3),(4,5)}, {(1,2),(3,4)}, {(2,3)} of
\* compare-and-swaps, 12 in all, each pass doing its group at once and
\* passes 1 and 3 the same group; the lanes agree with the buffer of
\* sort6 after the last pass, not pass by pass.
C10_PassesAreVectorGroups ==
    (prog = "simdsort6" /\ k \in 1 .. 5) =>
        /\ SignedLanes = C10_AfterGroups(input, k)
        /\ \A j \in Lanes16 \ Data6 : a[j] = 0
        /\ k = 5 => SignedLanes = sort6(input)

C10_Witness ==
    /\ prog = "simdsort6" /\ k = 1
    /\ input = Buf(<<127, 2, 1, 0, -1, -128>>)
    /\ SignedLanes = Buf(<<2, 127, 0, 1, -128, -1>>)
    /\ KswapUpTo(input, 3) = Buf(<<1, 2, 127, 0, -1, -128>>)

=============================================================================
